---- MODULE Spec2Model ----
(***************************************************************************)
(* ConvoETL extraction/load orchestration: the Prefect flows of            *)
(* convoetl/flows (backfill_flow, incremental_flow, convoetl_flow,         *)
(* polling_flow, multi_source_flow), their tasks with the retry counts and *)
(* the result cache of the @task decorators, and the SQLite loader's       *)
(* messages table, whose MAX(id) per (chat_id, platform) is the checkpoint.*)
(***************************************************************************)
EXTENDS Integers, FiniteSets, Sequences, TLC

VARIABLES
    upstream,    \* the platform side: source -> set of message ids of the group
    messages,    \* the messages table: set of rows keyed (message_id, platform, chat_id)
    flow,        \* one record per flow run slot: the locals and position of the flow
    cache        \* Prefect's cached results of the extract task, one per input hash

vars == <<upstream, messages, flow, cache>>

----------------------------------------------------------------------------
\* Bounds of the model.

\* Message ids of a group are 1..MaxId.
MaxId == 3

\* On a static source, where no messages arrive, the ids are 1..MaxStaticId.
MaxStaticId == 5

\* batch_size and limit arguments range over 1..MaxBatch; the defaults of the
\* flows (1000 and 5000 in the source) are scaled to MaxBatch.
MaxBatch == 2

\* max_iterations of a poll ranges over 1..MaxPolls (and None and 0), and a
\* polling loop is followed for at most MaxPolls iterations.
MaxPolls == 3

----------------------------------------------------------------------------
\* Program constants.

\* @task(name="extract_messages", retries=3)
ExtractRetries == 3
\* @task(name="load_messages", retries=3)
LoadRetries == 3
\* @task(name="get_last_message_id", retries=2)
GetLastRetries == 2

\* Python's None for an Optional[int].
None == 0 - 1

Id == 1..MaxId
BatchSizes == 1..MaxBatch

\* backfill_flow(batch_size=1000) and incremental_flow(limit=5000), scaled.
DefaultBatchSize == MaxBatch
DefaultLimit == MaxBatch

\* Source identifiers: two numeric group ids and one that int() rejects.
Sources == {"42", "43", "abc"}
NumericSources == {"42", "43"}

\* Flow run slots: independent callers of the Pipeline, and the sub-flow runs
\* a multi_source_flow submits (one per position of its sources list).
Callers == {"c1", "c2"}
Workers == <<"w1", "w2", "w3", "w4">>
WorkerSet == {Workers[i] : i \in 1..Len(Workers)}
Proc == Callers \cup WorkerSet

----------------------------------------------------------------------------
\* Helpers.

Max(S) == CHOOSE x \in S : \A y \in S : y <= x

Row(m, plat, s) == [message_id |-> m, platform |-> plat, chat_id |-> s]

RowsOf(tbl, s, plat) == {r \in tbl : r.chat_id = s /\ r.platform = plat}

MessageIds(rows) == {r.message_id : r \in rows}

Min(S) == CHOOSE x \in S : \A y \in S : x <= y

\* get_last_message_id with MIN for MAX.
get_last_message_id_min(tbl, s, plat) ==
    LET ids == MessageIds(RowsOf(tbl, s, plat))
    IN  IF ids # {} /\ Min(ids) # 0 THEN Min(ids) ELSE None

\* get_last_message_id without chat_id = ? in the WHERE clause.
get_last_message_id_any_chat(tbl, s, plat) ==
    LET ids == MessageIds({r \in tbl : r.platform = plat})
    IN  IF ids # {} /\ Max(ids) # 0 THEN Max(ids) ELSE None

\* SELECT MAX(message_id) FROM messages WHERE chat_id = ? AND platform = ?
\* return result[0] if result and result[0] else None
get_last_message_id(tbl, s, plat) ==
    LET ids == MessageIds(RowsOf(tbl, s, plat))
    IN  IF ids # {} /\ Max(ids) # 0 THEN Max(ids) ELSE None

\* TgData.get_messages(group_id, after_id, limit): the page of at most limit
\* messages with the lowest ids above after_id.
get_messages(ids, after_id, limit) ==
    LET above == {m \in ids : m > after_id}
    IN  {m \in above : Cardinality({x \in above : x < m}) < limit}

\* TelegramExtractor.extract_messages: int(source_id) must succeed; after_id
\* or 0; the rows get platform = "telegram" and chat_id = str(group_id).
ExtractorRaises(plat, s) == plat # "telegram" \/ s \notin NumericSources

\* extract_messages asking for the messages above after_id + 1.
extract_messages_skip_one(s, after_id, limit) ==
    LET a == (IF after_id = None THEN 0 ELSE after_id) + 1
    IN  {Row(m, "telegram", s) : m \in get_messages(upstream[s], a, limit)}

extract_messages(s, after_id, limit) ==
    LET a == IF after_id = None THEN 0 ELSE after_id
    IN  {Row(m, "telegram", s) : m \in get_messages(upstream[s], a, limit)}

NoResult == [status |-> "", messages |-> 0, last_message_id |-> None]

\* The record of a flow run.  name is the flow called, driver the inner flow
\* it is in (backfill or incremental), pc the task it is at.  limit is
\* batch_size or limit, last_id is last_message_id of backfill_flow and last_id
\* of incremental_flow, total is total_messages or count, tries the number
\* of retries of the current task so far.  Observers: batches counts the
\* extract task calls of the run, start_id is the checkpoint at the call,
\* arg_mode the mode argument, error the task whose exception left the flow.
\* polling_flow: iteration and max_iterations are its locals (total is its
\* total_messages), logged counts its logger.error calls.  For a caller that
\* repeats sync, iteration is the number of the call and origin the checkpoint
\* before the first one; seen is the set of ids the source had at the call.
IdleFlow ==
    [name |-> "", driver |-> "", pc |-> "idle", platform |-> "", source_id |-> "",
     limit |-> 0, last_id |-> None, messages_df |-> {}, total |-> 0, tries |-> 0,
     batches |-> 0, start_id |-> None, arg_mode |-> "",
     mode |-> "", sources |-> <<>>, next |-> 0, results |-> <<>>,
     iteration |-> 0, max_iterations |-> None, logged |-> 0, origin |-> None,
     seen |-> {}, error |-> "", result |-> NoResult]

Terminal(p) == flow[p].pc \in {"completed", "failed"}

\* A flow returns its result dict: status "completed", the message count
\* (total_messages or new_messages) and last_message_id.
Completed(f, count, last) ==
    [f EXCEPT !.pc = "completed", !.tries = 0,
              !.result = [status |-> "completed", messages |-> count,
                          last_message_id |-> last]]

----------------------------------------------------------------------------
\* Entry points.

\* Pipeline.backfill -> backfill_flow: total_messages = 0, last_message_id = 0,
\* then the first extract task call.
StartBackfill(f, name, plat, s, batch_size) ==
    [f EXCEPT !.name = name, !.driver = "backfill", !.pc = "extract",
              !.platform = plat, !.source_id = s, !.limit = batch_size,
              !.last_id = 0, !.total = 0, !.tries = 0, !.batches = 0,
              !.messages_df = {},
              !.start_id = get_last_message_id(messages, s, plat)]

\* Pipeline.sync -> incremental_flow: starts with the get_last_message_id task.
StartIncremental(f, name, plat, s, limit) ==
    [f EXCEPT !.name = name, !.driver = "incremental", !.pc = "get_last",
              !.platform = plat, !.source_id = s, !.limit = limit,
              !.last_id = None, !.total = 0, !.tries = 0, !.batches = 0,
              !.messages_df = {},
              !.start_id = get_last_message_id(messages, s, plat)]

backfill(p, plat, s, batch_size) ==
    /\ flow[p].pc = "idle"
    /\ flow' = [flow EXCEPT ![p] = StartBackfill(IdleFlow, "backfill_flow", plat, s, batch_size)]
    /\ UNCHANGED <<upstream, messages, cache>>

sync(p, plat, s, limit) ==
    /\ flow[p].pc = "idle"
    /\ flow' = [flow EXCEPT ![p] = StartIncremental(IdleFlow, "incremental_flow", plat, s, limit)]
    /\ UNCHANGED <<upstream, messages, cache>>

\* SelectMode with the two branches of the auto decision exchanged.
SelectMode_swapped(mode, last_id) ==
    IF mode = "auto"
    THEN IF last_id # None /\ last_id # 0 THEN "backfill" ELSE "incremental"
    ELSE mode

\* convoetl_flow: with mode "auto" one read of the loader decides the mode
\* ("incremental" if last_id else "backfill"); "backfill" runs backfill_flow,
\* anything else incremental_flow, both with their default sizes.
SelectMode(mode, last_id) ==
    IF mode = "auto"
    THEN IF last_id # None /\ last_id # 0 THEN "incremental" ELSE "backfill"
    ELSE mode

run(p, plat, s, mode) ==
    /\ flow[p].pc = "idle"
    /\ LET m == SelectMode(mode, get_last_message_id(messages, s, plat))
           f == [IdleFlow EXCEPT !.mode = m, !.arg_mode = mode]
       IN  flow' = [flow EXCEPT ![p] =
                IF m = "backfill"
                THEN StartBackfill(f, "convoetl_flow", plat, s, DefaultBatchSize)
                ELSE StartIncremental(f, "convoetl_flow", plat, s, DefaultLimit)]
    /\ UNCHANGED <<upstream, messages, cache>>

\* load_messages_task called on a DataFrame of rows of one source.
load_messages_task(p, s, ids) ==
    /\ flow[p].pc = "idle"
    /\ flow' = [flow EXCEPT ![p] =
          [IdleFlow EXCEPT !.name = "load_messages_task", !.pc = "load",
                           !.platform = "telegram", !.source_id = s,
                           !.messages_df = {Row(m, "telegram", s) : m \in ids},
                           !.start_id = get_last_message_id(messages, s, "telegram")]]
    /\ UNCHANGED <<upstream, messages, cache>>

\* Pipeline.run_multiple -> multi_source_flow: one sub-flow run is submitted
\* per entry of sources, all with the default sizes, before any is awaited.
Submitted(w, srcs, mode) ==
    LET i == CHOOSE j \in 1..Len(Workers) : Workers[j] = w
    IN  IF i > Len(srcs) THEN IdleFlow
        ELSE IF mode = "backfill"
             THEN StartBackfill(IdleFlow, "backfill_flow", "telegram", srcs[i],
                                DefaultBatchSize)
             ELSE StartIncremental(IdleFlow, "incremental_flow", "telegram",
                                   srcs[i], DefaultLimit)

\* r.get("new_messages", r.get("total_messages", 0)): the count of a result,
\* which an incremental result has as new_messages and a backfill result as
\* total_messages.
NewOrTotal(r) == r.messages

RECURSIVE SumMessages(_)
SumMessages(results) ==
    IF results = <<>> THEN 0
    ELSE NewOrTotal(Head(results)) + SumMessages(Tail(results))

\* multi_source_flow returns the combined result.
MultiCompleted(f) ==
    [f EXCEPT !.pc = "completed",
              !.total = SumMessages(f.results),
              !.result = [status |-> "completed",
                          sources_processed |-> Len(f.sources),
                          total_messages |-> SumMessages(f.results),
                          individual_results |-> f.results]]

run_multiple(p, srcs, mode) ==
    /\ flow[p].pc = "idle"
    /\ \A w \in WorkerSet : flow[w].pc = "idle"
    /\ flow' = [q \in Proc |->
          IF q = p
          THEN LET f == [IdleFlow EXCEPT !.name = "multi_source_flow",
                                         !.mode = mode, !.sources = srcs,
                                         !.next = 1, !.pc = "await"]
               IN  IF srcs = <<>> THEN MultiCompleted(f) ELSE f
          ELSE IF q \in WorkerSet THEN Submitted(q, srcs, mode)
          ELSE flow[q]]
    /\ UNCHANGED <<upstream, messages, cache>>

\* Await keeping only the results that have messages.
Await_skips_empty(p) ==
    /\ flow[p].pc = "await"
    /\ LET w == Workers[flow[p].next]
       IN  /\ Terminal(w)
           /\ flow' = [flow EXCEPT ![p] =
                 IF flow[w].pc = "failed"
                 THEN [@ EXCEPT !.pc = "failed", !.error = "await"]
                 ELSE LET f == [@ EXCEPT !.results =
                                             IF flow[w].result.messages > 0
                                             THEN Append(@, flow[w].result) ELSE @,
                                         !.next = @ + 1]
                      IN  IF f.next > Len(f.sources)
                          THEN MultiCompleted(f)
                          ELSE f]
    /\ UNCHANGED <<upstream, messages, cache>>

\* for task in tasks: result = await task; results.append(result).  The
\* exception of a failed sub-flow is raised by the await and leaves the flow;
\* after the last await the results are summed.
Await(p) ==
    /\ flow[p].pc = "await"
    /\ LET w == Workers[flow[p].next]
       IN  /\ Terminal(w)
           /\ flow' = [flow EXCEPT ![p] =
                 IF flow[w].pc = "failed"
                 THEN [@ EXCEPT !.pc = "failed", !.error = "await"]
                 ELSE LET f == [@ EXCEPT !.results = Append(@, flow[w].result),
                                         !.next = @ + 1]
                      IN  IF f.next > Len(f.sources)
                          THEN MultiCompleted(f)
                          ELSE f]
    /\ UNCHANGED <<upstream, messages, cache>>

----------------------------------------------------------------------------
\* Tasks.  A task that raises is run again by Prefect until it has been
\* retried `retries` times; then the exception leaves the flow.

\* TaskRaised with one retry too many (<= for <).
TaskRaised_one_more(p, retries) ==
    IF flow[p].tries <= retries
    THEN [flow EXCEPT ![p].tries = @ + 1]
    ELSE [flow EXCEPT ![p].pc = "failed", ![p].error = flow[p].pc]

\* TaskRaised with the last exception swallowed: the flow returns its result.
TaskRaised_swallowed(p, retries) ==
    IF flow[p].tries < retries
    THEN [flow EXCEPT ![p].tries = @ + 1]
    ELSE [flow EXCEPT ![p] = Completed(@, @.total, @.last_id)]

\* TaskRaised without retries: the first exception leaves the flow.
TaskRaised_no_retry(p, retries) ==
    [flow EXCEPT ![p].pc = "failed", ![p].error = flow[p].pc]

TaskRaised(p, retries) ==
    IF flow[p].tries < retries
    THEN [flow EXCEPT ![p].tries = @ + 1]
    ELSE [flow EXCEPT ![p].pc = "failed", ![p].error = flow[p].pc]

\* GetLastOk with the checkpoint ignored: the sync starts from the beginning.
GetLastOk_from_zero(p) ==
    /\ flow[p].pc = "get_last"
    /\ flow' = [flow EXCEPT ![p].last_id = None,
                            ![p].pc = "extract", ![p].tries = 0]
    /\ UNCHANGED <<upstream, messages, cache>>

\* get_last_message_id_task of incremental_flow.
GetLastOk(p) ==
    /\ flow[p].pc = "get_last"
    /\ flow' = [flow EXCEPT ![p].last_id =
                    get_last_message_id(messages, flow[p].source_id, flow[p].platform),
                            ![p].pc = "extract", ![p].tries = 0]
    /\ UNCHANGED <<upstream, messages, cache>>

\* extract_messages_task has returned the DataFrame df.  backfill_flow leaves
\* its loop on an empty one; incremental_flow passes it to the load task
\* whatever it is.
AfterExtract(f, df) ==
    LET g == [f EXCEPT !.messages_df = df, !.batches = @ + 1, !.tries = 0]
    IN  IF f.driver = "backfill" /\ df = {}
        THEN Completed(g, g.total, g.last_id)
        ELSE [g EXCEPT !.pc = "load"]

\* The extract task runs and returns what the extractor returns, as it does
\* when Prefect holds no unexpired result for its inputs.
ExtractOk(p) ==
    /\ flow[p].pc = "extract"
    /\ ~ExtractorRaises(flow[p].platform, flow[p].source_id)
    /\ LET df == extract_messages(flow[p].source_id, flow[p].last_id, flow[p].limit)
       IN  flow' = [flow EXCEPT ![p] = AfterExtract(flow[p], df)]
    /\ UNCHANGED <<upstream, messages, cache>>

\* cache_key_fn=task_input_hash: the key of a call of the extract task is the
\* hash of its inputs (config is the same in every call of a pipeline).
task_input_hash(f) ==
    [platform |-> f.platform, source_id |-> f.source_id,
     after_id |-> f.last_id, limit |-> f.limit]

CachedResults(f) == {e \in cache : e.key = task_input_hash(f)}

\* The extract task with Prefect's result cache.  ExtractHit: a completed run
\* with the same key is less than cache_expiration old, so the task is not
\* run and its call returns the DataFrame of that run.
ExtractHit(p) ==
    /\ flow[p].pc = "extract"
    /\ \E e \in CachedResults(flow[p]) :
          flow' = [flow EXCEPT ![p] = AfterExtract(flow[p], e.messages_df)]
    /\ UNCHANGED <<upstream, messages, cache>>

\* ExtractMiss: no such run, so the task runs and Prefect keeps its result
\* under the key.
ExtractMiss(p) ==
    /\ flow[p].pc = "extract"
    /\ CachedResults(flow[p]) = {}
    /\ ~ExtractorRaises(flow[p].platform, flow[p].source_id)
    /\ LET df == extract_messages(flow[p].source_id, flow[p].last_id, flow[p].limit)
       IN  /\ flow' = [flow EXCEPT ![p] = AfterExtract(flow[p], df)]
           /\ cache' = cache \cup {[key |-> task_input_hash(flow[p]), messages_df |-> df]}
    /\ UNCHANGED <<upstream, messages>>

\* cache_expiration=timedelta(minutes=10): ten minutes after its run a cached
\* result is no longer used.
Expire ==
    /\ \E e \in cache : cache' = cache \ {e}
    /\ UNCHANGED <<upstream, messages, flow>>

\* The extractor raises on every attempt: ValueError for another platform or
\* for a source id int() rejects.
ExtractRaise(p) ==
    /\ flow[p].pc = "extract"
    /\ ExtractorRaises(flow[p].platform, flow[p].source_id)
    /\ flow' = TaskRaised(p, ExtractRetries)
    /\ UNCHANGED <<upstream, messages, cache>>

\* SQLiteLoader.store_messages: one INSERT of all rows (to_sql, append), commit,
\* count = len(messages_df).  A row whose primary key is in the table makes the
\* INSERT raise; the except branch rolls back and raises again.
KeyConflict(tbl, df) == df \cap tbl # {}

\* store_messages with to_sql(if_exists='replace'): the table becomes the batch.
store_messages_replace(tbl, df) == df

store_messages(tbl, df) == tbl \cup df

\* AfterLoad with total_messages = count for total_messages += count.
AfterLoad_total_overwritten(f, count) ==
    IF f.driver = "backfill"
    THEN LET g == [f EXCEPT !.total = count,
                            !.last_id = Max(MessageIds(f.messages_df)),
                            !.tries = 0]
         IN  IF Cardinality(f.messages_df) < f.limit
             THEN Completed(g, g.total, g.last_id)
             ELSE [g EXCEPT !.pc = "extract"]
    ELSE Completed([f EXCEPT !.total = count], count,
                   IF f.messages_df # {} THEN Max(MessageIds(f.messages_df))
                   ELSE f.last_id)

\* AfterLoad with the loop left on a full batch too (<= for <).
AfterLoad_stop_on_full(f, count) ==
    IF f.driver = "backfill"
    THEN LET g == [f EXCEPT !.total = @ + count,
                            !.last_id = Max(MessageIds(f.messages_df)),
                            !.tries = 0]
         IN  IF Cardinality(f.messages_df) <= f.limit
             THEN Completed(g, g.total, g.last_id)
             ELSE [g EXCEPT !.pc = "extract"]
    ELSE Completed([f EXCEPT !.total = count], count,
                   IF f.messages_df # {} THEN Max(MessageIds(f.messages_df))
                   ELSE f.last_id)

\* AfterLoad with new_last_id of incremental_flow lost on an empty batch
\* (None for last_id).
AfterLoad_empty_forgets(f, count) ==
    IF f.driver = "backfill"
    THEN LET g == [f EXCEPT !.total = @ + count,
                            !.last_id = Max(MessageIds(f.messages_df)),
                            !.tries = 0]
         IN  IF Cardinality(f.messages_df) < f.limit
             THEN Completed(g, g.total, g.last_id)
             ELSE [g EXCEPT !.pc = "extract"]
    ELSE Completed([f EXCEPT !.total = count], count,
                   IF f.messages_df # {} THEN Max(MessageIds(f.messages_df))
                   ELSE None)

\* What the flow does with the load task's count.
\* AfterLoad without last_message_id = messages_df['message_id'].max().
AfterLoad_cursor_kept(f, count) ==
    IF f.driver = "backfill"
    THEN LET g == [f EXCEPT !.total = @ + count, !.tries = 0]
         IN  IF Cardinality(f.messages_df) < f.limit
             THEN Completed(g, g.total, g.last_id)
             ELSE [g EXCEPT !.pc = "extract"]
    ELSE Completed([f EXCEPT !.total = count], count,
                   IF f.messages_df # {} THEN Max(MessageIds(f.messages_df))
                   ELSE f.last_id)

AfterLoad(f, count) ==
    IF f.driver = "backfill"
    THEN LET g == [f EXCEPT !.total = @ + count,
                            !.last_id = Max(MessageIds(f.messages_df)),
                            !.tries = 0]
         IN  IF Cardinality(f.messages_df) < f.limit
             THEN Completed(g, g.total, g.last_id)
             ELSE [g EXCEPT !.pc = "extract"]
    ELSE Completed([f EXCEPT !.total = count], count,
                   IF f.messages_df # {} THEN Max(MessageIds(f.messages_df))
                   ELSE f.last_id)

LoadOk(p) ==
    /\ flow[p].pc = "load"
    /\ LET df == flow[p].messages_df
           g  == AfterLoad(flow[p], Cardinality(df))
       IN  /\ df # {} => ~KeyConflict(messages, df)
           /\ messages' = IF df = {} THEN messages ELSE store_messages(messages, df)
           /\ flow' = [flow EXCEPT ![p] = g]
    /\ UNCHANGED <<upstream, cache>>

\* LoadConflict with the rows inserted one by one and no rollback: the rows of
\* the batch that are not in the table stay.
LoadConflict_committed(p) ==
    /\ flow[p].pc = "load"
    /\ flow[p].messages_df # {}
    /\ KeyConflict(messages, flow[p].messages_df)
    /\ flow' = TaskRaised(p, LoadRetries)
    /\ messages' = messages \cup flow[p].messages_df
    /\ UNCHANGED <<upstream, cache>>

LoadConflict(p) ==
    /\ flow[p].pc = "load"
    /\ flow[p].messages_df # {}
    /\ KeyConflict(messages, flow[p].messages_df)
    /\ flow' = TaskRaised(p, LoadRetries)
    /\ UNCHANGED <<upstream, messages, cache>>

\* Failures of the environment: the platform is unreachable or rate limited,
\* the database is locked or unreadable.  store_messages rolls back, so the
\* table is as before the call.
ExtractTransient(p) ==
    /\ flow[p].pc = "extract"
    /\ ~ExtractorRaises(flow[p].platform, flow[p].source_id)
    /\ flow' = TaskRaised(p, ExtractRetries)
    /\ UNCHANGED <<upstream, messages, cache>>

\* LoadTransient without an effective rollback: rows of the batch stay.
LoadTransient_partial(p) ==
    /\ flow[p].pc = "load"
    /\ flow[p].messages_df # {}
    /\ flow' = TaskRaised(p, LoadRetries)
    /\ \E part \in SUBSET flow[p].messages_df :
          /\ part # {}
          /\ messages' = messages \cup part
    /\ UNCHANGED <<upstream, cache>>

LoadTransient(p) ==
    /\ flow[p].pc = "load"
    /\ flow[p].messages_df # {}
    /\ flow' = TaskRaised(p, LoadRetries)
    /\ UNCHANGED <<upstream, messages, cache>>

GetLastTransient(p) ==
    /\ flow[p].pc = "get_last"
    /\ flow' = TaskRaised(p, GetLastRetries)
    /\ UNCHANGED <<upstream, messages, cache>>

\* A new message is posted in a group: its id is above every id of the group.
Arrive(s) ==
    /\ \E m \in Id :
          /\ \A x \in upstream[s] : x < m
          /\ upstream' = [upstream EXCEPT ![s] = @ \cup {m}]
    /\ UNCHANGED <<messages, flow, cache>>

\* The caller takes the result (or the exception) and may call again.
Return(p) ==
    /\ Terminal(p)
    /\ flow' = [flow EXCEPT ![p] = IdleFlow]
    /\ UNCHANGED <<upstream, messages, cache>>

Step(p) ==
    \/ GetLastOk(p)
    \/ ExtractOk(p)
    \/ ExtractRaise(p)
    \/ LoadOk(p)
    \/ LoadConflict(p)

\* The steps of an incremental_flow run beside which no other driver runs:
\* every id of its batch is above MAX(message_id) of the source, so the
\* INSERT of the load task finds no key of the batch in the table.
SyncStep(p) ==
    \/ GetLastOk(p)
    \/ ExtractOk(p)
    \/ ExtractRaise(p)
    \/ LoadOk(p)

----------------------------------------------------------------------------
\* polling_flow.  The incremental_flow run of the current iteration is in the
\* slot PollWorker; the polling flow itself is in the caller's slot, at "sync"
\* while it awaits that run and at "sleep" in asyncio.sleep.

PollWorker == Workers[1]

\* `if max_iterations and ...`: None and 0 are both false.
Truthy(max_iterations) == max_iterations # None /\ max_iterations # 0

\* total_messages / iteration if iteration > 0 else 0, kept as the exact
\* fraction <<numerator, denominator>>.
AveragePerPoll(total_messages, iteration) ==
    IF iteration > 0 THEN <<total_messages, iteration>> ELSE <<0, 1>>

\* PollCompleted counting the iterations from 0.
PollCompleted_zero_based(f) ==
    [f EXCEPT !.pc = "completed",
              !.result = [status |-> "completed", iterations |-> f.iteration - 1,
                          total_messages |-> f.total,
                          average_messages_per_poll |->
                              AveragePerPoll(f.total, f.iteration - 1)]]

\* polling_flow returns its statistics.
PollCompleted(f) ==
    [f EXCEPT !.pc = "completed",
              !.result = [status |-> "completed", iterations |-> f.iteration,
                          total_messages |-> f.total,
                          average_messages_per_poll |->
                              AveragePerPoll(f.total, f.iteration)]]

\* Pipeline.poll -> polling_flow: iteration = 0, total_messages = 0, then the
\* first pass of the loop: iteration += 1 and the call of incremental_flow
\* with its default limit.
poll(p, plat, s, max_iterations) ==
    /\ flow[p].pc = "idle"
    /\ flow[PollWorker].pc = "idle"
    /\ flow' = [flow EXCEPT
          ![p] = [IdleFlow EXCEPT !.name = "polling_flow", !.pc = "sync",
                                  !.platform = plat, !.source_id = s,
                                  !.iteration = 1,
                                  !.max_iterations = max_iterations,
                                  !.start_id = get_last_message_id(messages, s, plat)],
          ![PollWorker] = StartIncremental(IdleFlow, "incremental_flow", plat, s,
                                           DefaultLimit)]
    /\ UNCHANGED <<upstream, messages, cache>>

\* PollResult with the stop test iteration > max_iterations.
PollResult_off_by_one(p) ==
    /\ flow[p].name = "polling_flow"
    /\ flow[p].pc = "sync"
    /\ Terminal(PollWorker)
    /\ LET w == flow[PollWorker]
           f == IF w.pc = "completed"
                THEN [flow[p] EXCEPT !.total = @ + w.result.messages]
                ELSE [flow[p] EXCEPT !.logged = @ + 1]
       IN  flow' = [flow EXCEPT
              ![p] = IF Truthy(f.max_iterations) /\ f.iteration > f.max_iterations
                     THEN PollCompleted(f)
                     ELSE [f EXCEPT !.pc = "sleep"],
              ![PollWorker] = IdleFlow]
    /\ UNCHANGED <<upstream, messages, cache>>

\* PollResult without the try/except: the exception of incremental_flow
\* leaves polling_flow.
PollResult_raise(p) ==
    /\ flow[p].name = "polling_flow"
    /\ flow[p].pc = "sync"
    /\ Terminal(PollWorker)
    /\ LET w == flow[PollWorker]
           f == [flow[p] EXCEPT !.total = @ + w.result.messages]
       IN  flow' = [flow EXCEPT
              ![p] = IF w.pc = "failed"
                     THEN [flow[p] EXCEPT !.pc = "failed", !.error = "sync"]
                     ELSE IF Truthy(f.max_iterations) /\ f.iteration >= f.max_iterations
                          THEN PollCompleted(f)
                          ELSE [f EXCEPT !.pc = "sleep"],
              ![PollWorker] = IdleFlow]
    /\ UNCHANGED <<upstream, messages, cache>>

\* The rest of the loop body once incremental_flow has returned or raised:
\* total_messages += new_messages, or the except branch that logs the error;
\* then the stop test, and the break or the sleep.
PollResult(p) ==
    /\ flow[p].name = "polling_flow"
    /\ flow[p].pc = "sync"
    /\ Terminal(PollWorker)
    /\ LET w == flow[PollWorker]
           f == IF w.pc = "completed"
                THEN [flow[p] EXCEPT !.total = @ + w.result.messages]
                ELSE [flow[p] EXCEPT !.logged = @ + 1]
       IN  flow' = [flow EXCEPT
              ![p] = IF Truthy(f.max_iterations) /\ f.iteration >= f.max_iterations
                     THEN PollCompleted(f)
                     ELSE [f EXCEPT !.pc = "sleep"],
              ![PollWorker] = IdleFlow]
    /\ UNCHANGED <<upstream, messages, cache>>

\* asyncio.sleep returns: the next pass of the loop.  A loop without a stop
\* test that can succeed is followed for MaxPolls iterations.
PollWake(p) ==
    /\ flow[p].name = "polling_flow"
    /\ flow[p].pc = "sleep"
    /\ flow[p].iteration < MaxPolls
    /\ flow' = [flow EXCEPT
          ![p].iteration = @ + 1,
          ![p].pc = "sync",
          ![PollWorker] = StartIncremental(IdleFlow, "incremental_flow",
                                           flow[p].platform, flow[p].source_id,
                                           DefaultLimit)]
    /\ UNCHANGED <<upstream, messages, cache>>

\* PollCancel with the cancellation caught like an error of the iteration:
\* the loop goes on.
PollCancel_swallowed(p) ==
    /\ flow[p].name = "polling_flow"
    /\ flow[p].pc = "sleep"
    /\ flow[p].iteration < MaxPolls
    /\ flow' = [flow EXCEPT
          ![p].iteration = @ + 1,
          ![p].pc = "sync",
          ![p].logged = @ + 1,
          ![p].error = "cancelled",
          ![PollWorker] = StartIncremental(IdleFlow, "incremental_flow",
                                           flow[p].platform, flow[p].source_id,
                                           DefaultLimit)]
    /\ UNCHANGED <<upstream, messages, cache>>

\* The flow is cancelled (Ctrl+C, task cancellation) while it is suspended in
\* await asyncio.sleep: the await raises, nothing in polling_flow catches it,
\* and the exception leaves the flow.
PollCancel(p) ==
    /\ flow[p].name = "polling_flow"
    /\ flow[p].pc = "sleep"
    /\ flow' = [flow EXCEPT ![p].pc = "failed", ![p].error = "cancelled"]
    /\ UNCHANGED <<upstream, messages, cache>>

----------------------------------------------------------------------------
\* A static source and one caller at a time, nothing fails but what the code
\* itself makes fail.

InitStatic ==
    /\ upstream \in [Sources -> SUBSET (1..MaxStaticId)]
    /\ upstream["43"] = {} /\ upstream["abc"] = {}
    /\ messages = {}
    /\ flow = [p \in Proc |-> IdleFlow]
    /\ cache = {}

CallStatic ==
    \/ \E b \in BatchSizes : backfill("c1", "telegram", "42", b)
    \/ \E l \in BatchSizes : sync("c1", "telegram", "42", l)
    \/ \E m \in {"auto", "backfill", "incremental"} : run("c1", "telegram", "42", m)
    \/ run("c1", "telegram", "abc", "auto")

NextStatic ==
    \/ CallStatic
    \/ Step("c1")
    \/ Return("c1")

SpecStatic == InitStatic /\ [][NextStatic]_vars

\* A flow run goes on while it can: its tasks run, and are run again by
\* Prefect after an exception.  Nothing obliges the caller to call.
SpecStaticLive == InitStatic /\ [][NextStatic]_vars /\ WF_vars(Step("c1"))

----------------------------------------------------------------------------
\* One caller running one driver after another on live groups, with failing
\* tasks.

Init ==
    /\ upstream = [s \in Sources |-> {}]
    /\ messages = {}
    /\ flow = [p \in Proc |-> IdleFlow]
    /\ cache = {}

Call(p, s) ==
    \/ \E b \in BatchSizes : backfill(p, "telegram", s, b)
    \/ \E l \in BatchSizes : sync(p, "telegram", s, l)
    \/ run(p, "telegram", s, "auto")

Fail(p) ==
    \/ ExtractTransient(p)
    \/ LoadTransient(p)
    \/ GetLastTransient(p)

Next ==
    \/ \E s \in Sources : Call("c1", s)
    \/ Step("c1")
    \/ Fail("c1")
    \/ Return("c1")
    \/ \E s \in NumericSources : Arrive(s)

Spec == Init /\ [][Next]_vars

----------------------------------------------------------------------------
\* The load task on any batch of rows of one source, against any table a
\* sequence of earlier loads can leave.

RowIds == 0..MaxId

InitLoad ==
    /\ upstream = [s \in Sources |-> {}]
    /\ messages = {}
    /\ flow = [p \in Proc |-> IdleFlow]
    /\ cache = {}

NextLoad ==
    \/ \E ids \in SUBSET RowIds : load_messages_task("c1", "42", ids)
    \/ LoadOk("c1")
    \/ LoadConflict("c1")
    \/ Return("c1")

SpecLoad == InitLoad /\ [][NextLoad]_vars

----------------------------------------------------------------------------
\* One run_multiple over a list of distinct sources; the groups are static
\* and the table holds what earlier runs stored of them.

Prefix(ids, n) == {m \in ids : Cardinality({x \in ids : x < m}) < n}

SourceLists ==
    {l \in UNION {[1..n -> Sources] : n \in 0..Len(Workers)} :
        \A i, j \in DOMAIN l : i # j => l[i] # l[j]}

InitMulti ==
    /\ upstream \in [Sources -> {1..k : k \in 0..MaxId}]
    /\ upstream["abc"] = {}
    /\ \E n \in [NumericSources -> 0..MaxId] :
          messages = UNION {{Row(m, "telegram", s) : m \in Prefix(upstream[s], n[s])} :
                              s \in NumericSources}
    /\ flow = [p \in Proc |-> IdleFlow]
    /\ cache = {}

NextMulti ==
    \/ \E l \in SourceLists, m \in {"backfill", "incremental"} : run_multiple("c1", l, m)
    \/ \E w \in WorkerSet : Step(w)
    \/ Await("c1")

SpecMulti == InitMulti /\ [][NextMulti]_vars

----------------------------------------------------------------------------
\* One run_multiple over a list of four entries: three sources in some order
\* and one of them again.  The group has at most one message and the table
\* is empty.

\* ConcurrentTaskRunner(max_workers=3), the task runner of convoetl_flow.
MaxWorkers == 3

FanLists ==
    {Append(l, s) : l \in {x \in SourceLists : Len(x) = MaxWorkers}, s \in Sources}

InitFan ==
    /\ upstream \in [Sources -> {{}, {1}}]
    /\ upstream["43"] = {} /\ upstream["abc"] = {}
    /\ messages = {}
    /\ flow = [p \in Proc |-> IdleFlow]
    /\ cache = {}

NextFan ==
    \/ \E l \in FanLists, m \in {"backfill", "incremental"} : run_multiple("c1", l, m)
    \/ \E w \in WorkerSet : Step(w)
    \/ Await("c1")

SpecFan == InitFan /\ [][NextFan]_vars

----------------------------------------------------------------------------
\* Two callers, each running one driver, on different sources: the first on
\* group "42", the second on group "43" or on a source id int() rejects.  The
\* groups are static and the table holds what earlier runs stored of them.

PairSources == [c1 |-> {"42"}, c2 |-> {"43", "abc"}]

CallPair(p) ==
    \/ \E s \in PairSources[p], b \in BatchSizes : backfill(p, "telegram", s, b)
    \/ \E s \in PairSources[p], l \in BatchSizes : sync(p, "telegram", s, l)

NextPair ==
    \/ \E p \in Callers : CallPair(p)
    \/ \E p \in Callers : Step(p)

SpecPair == InitMulti /\ [][NextPair]_vars

----------------------------------------------------------------------------
\* Two callers, each running one driver, on the same source: a static group
\* or a source id int() rejects.

RaceSources == {"42", "abc"}

\* Every other caller is idle or runs its driver on source s.
SameSource(p, s) ==
    \A q \in Callers \ {p} : flow[q].pc = "idle" \/ flow[q].source_id = s

CallRace(p) ==
    \/ \E s \in RaceSources, b \in BatchSizes :
          backfill(p, "telegram", s, b) /\ SameSource(p, s)
    \/ \E s \in RaceSources, l \in BatchSizes :
          sync(p, "telegram", s, l) /\ SameSource(p, s)

NextRace ==
    \/ \E p \in Callers : CallRace(p)
    \/ \E p \in Callers : Step(p)

SpecRace == InitMulti /\ [][NextRace]_vars

----------------------------------------------------------------------------
\* One caller on a static group, on a source id int() rejects and on a
\* platform without extractor, with failing tasks.

Platforms == {"telegram", "youtube"}

CallFault ==
    \/ \E b \in BatchSizes, plat \in Platforms : backfill("c1", plat, "42", b)
    \/ \E l \in BatchSizes, plat \in Platforms : sync("c1", plat, "42", l)
    \/ \E b \in BatchSizes : backfill("c1", "telegram", "abc", b)
    \/ \E m \in {"auto", "incremental"} : run("c1", "telegram", "42", m)

NextFault ==
    \/ CallFault
    \/ Step("c1")
    \/ Fail("c1")
    \/ Return("c1")

SpecFault == InitStatic /\ [][NextFault]_vars

----------------------------------------------------------------------------
\* A caller that calls sync on one static group again and again with the same
\* limit, the table holding at first what an earlier run stored of the group.

\* One more call than the longest series that stores a message.
MaxCalls == MaxStaticId + 1

InitSync ==
    /\ upstream \in [Sources -> SUBSET (1..MaxStaticId)]
    /\ upstream["43"] = {} /\ upstream["abc"] = {}
    /\ \E n \in 0..MaxStaticId :
          messages = {Row(m, "telegram", "42") : m \in Prefix(upstream["42"], n)}
    /\ flow = [p \in Proc |-> IdleFlow]
    /\ cache = {}

\* The first call of the series.
sync_first(p, s, limit) ==
    /\ flow[p].pc = "idle"
    /\ flow' = [flow EXCEPT ![p] =
          StartIncremental(
              [IdleFlow EXCEPT !.iteration = 1,
                               !.origin = get_last_message_id(messages, s, "telegram")],
              "incremental_flow", "telegram", s, limit)]
    /\ UNCHANGED <<upstream, messages, cache>>

\* The caller has the result of a sync and calls sync again.
sync_again(p) ==
    /\ flow[p].name = "incremental_flow"
    /\ flow[p].pc = "completed"
    /\ flow[p].iteration < MaxCalls
    /\ flow' = [flow EXCEPT ![p] =
          StartIncremental(
              [IdleFlow EXCEPT !.iteration = flow[p].iteration + 1,
                               !.origin = flow[p].origin],
              "incremental_flow", "telegram", flow[p].source_id, flow[p].limit)]
    /\ UNCHANGED <<upstream, messages, cache>>

NextSync ==
    \/ \E s \in {"42", "abc"}, l \in BatchSizes : sync_first("c1", s, l)
    \/ sync_again("c1")
    \/ SyncStep("c1")

SpecSync == InitSync /\ [][NextSync]_vars

----------------------------------------------------------------------------
\* One poll at a time of a live group or of a source id int() rejects, with
\* failing tasks and cancellation.

MaxIterations == {None} \cup 0..MaxPolls

NextPoll ==
    \/ \E s \in {"42", "abc"}, m \in MaxIterations : poll("c1", "telegram", s, m)
    \/ SyncStep(PollWorker)
    \/ Fail(PollWorker)
    \/ PollResult("c1")
    \/ PollWake("c1")
    \/ PollCancel("c1")
    \/ Return("c1")
    \/ Arrive("42")

SpecPoll == Init /\ [][NextPoll]_vars

\* The flow run goes on while it can: tasks run and are retried, the await of
\* incremental_flow and the sleep return.  Nothing obliges a caller to call,
\* a message to arrive, a task to fail or a cancellation to come.
\* A caller that calls sync on a live group again and again, the extract task
\* with its result cache.

sync_live(p, s, limit) ==
    /\ flow[p].pc = "idle"
    /\ flow' = [flow EXCEPT ![p] =
          StartIncremental([IdleFlow EXCEPT !.seen = upstream[s]],
                           "incremental_flow", "telegram", s, limit)]
    /\ UNCHANGED <<upstream, messages, cache>>

NextCache ==
    \/ sync_live("c1", "42", DefaultLimit)
    \/ GetLastOk("c1")
    \/ ExtractMiss("c1")
    \/ ExtractHit("c1")
    \/ LoadOk("c1")
    \/ Return("c1")
    \/ Arrive("42")
    \/ Expire

SpecCache == Init /\ [][NextCache]_vars

SpecPollLive ==
    /\ Init
    /\ [][NextPoll]_vars
    /\ WF_vars(SyncStep(PollWorker))
    /\ WF_vars(PollResult("c1"))
    /\ WF_vars(PollWake("c1"))

----------------------------------------------------------------------------
\* Properties of the drivers on a static source (SpecStatic).

Checkpoint(p) == get_last_message_id(messages, flow[p].source_id, flow[p].platform)

K(p) == Cardinality(upstream[flow[p].source_id])

\* A backfill driver that started on a numeric source with no checkpoint.
FreshBackfill(p) ==
    /\ flow[p].driver = "backfill"
    /\ flow[p].start_id = None
    /\ flow[p].source_id \in NumericSources

\* A backfill driver that started on a static source in the state a completed
\* backfill leaves: the checkpoint is the highest id of the source.
ResumedBackfill(p) ==
    /\ flow[p].driver = "backfill"
    /\ flow[p].source_id \in NumericSources
    /\ upstream[flow[p].source_id] # {}
    /\ flow[p].start_id = Max(upstream[flow[p].source_id])

\* C1: a backfill that runs after a completed backfill of the same static
\* source completes without error, stores nothing and leaves the checkpoint
\* where it was.
C1_IdempotentResume ==
    \A p \in Proc :
        (ResumedBackfill(p) /\ Terminal(p)) =>
            /\ flow[p].pc = "completed"
            /\ flow[p].result.messages = 0
            /\ Checkpoint(p) = flow[p].start_id

\* C5: a backfill of a static source of K messages that starts with no
\* checkpoint never fails, has had only full batches while it is still
\* looping, and completes after exactly K \div B + 1 extract calls (which is
\* ceil(K/B) when B does not divide K and K/B + 1 when it does), the last of
\* them returning fewer than B messages.
C5_BatchTermination ==
    \A p \in Proc : FreshBackfill(p) =>
        /\ flow[p].pc # "failed"
        /\ flow[p].pc = "extract" =>
              /\ flow[p].total = flow[p].batches * flow[p].limit
              /\ flow[p].batches > 0 => Cardinality(flow[p].messages_df) = flow[p].limit
        /\ flow[p].pc = "load" =>
              flow[p].total = (flow[p].batches - 1) * flow[p].limit
        /\ flow[p].pc = "completed" =>
              /\ flow[p].batches = (K(p) \div flow[p].limit) + 1
              /\ Cardinality(flow[p].messages_df) < flow[p].limit

\* A backfill of 4 messages in batches of 2 has completed: two full batches
\* and the empty batch that confirms the end.
C5_Witness ==
    \E p \in Proc :
        /\ FreshBackfill(p) /\ flow[p].pc = "completed"
        /\ K(p) = 4 /\ flow[p].limit = 2 /\ flow[p].batches = 3
        /\ flow[p].messages_df = {}

\* C6: a backfill of a static source of K >= 1 messages that starts with no
\* checkpoint ends completed, returns total_messages = K and leaves the
\* checkpoint and the returned last_message_id at the highest id of the source.
C6_BackfillResult ==
    \A p \in Proc :
        (FreshBackfill(p) /\ K(p) >= 1 /\ Terminal(p)) =>
            /\ flow[p].pc = "completed"
            /\ flow[p].result.status = "completed"
            /\ flow[p].result.messages = K(p)
            /\ flow[p].result.last_message_id = Max(upstream[flow[p].source_id])
            /\ Checkpoint(p) = Max(upstream[flow[p].source_id])

\* A backfill of 5 messages in batches of 2 (batches of 2, 2 and 1, as 2500
\* messages in batches of 1000 give 1000, 1000 and 500) has returned.
C6_Witness ==
    \E p \in Proc :
        /\ FreshBackfill(p) /\ Terminal(p)
        /\ K(p) = 5 /\ flow[p].limit = 2 /\ flow[p].batches = 3
        /\ flow[p].result.messages = 5

\* C7: a run in auto mode starts the backfill driver when the table holds no
\* checkpoint of the source at the call and the incremental driver when it
\* holds one, and the driver of an invocation never changes while it runs.
C7_AutoMode ==
    [][\A p \in Proc :
        /\ (flow[p].pc = "idle" /\ flow'[p].name = "convoetl_flow"
                /\ flow'[p].arg_mode = "auto") =>
              flow'[p].driver =
                 IF get_last_message_id(messages, flow'[p].source_id,
                                        flow'[p].platform) = None
                 THEN "backfill" ELSE "incremental"
        /\ (flow[p].driver # "" /\ flow'[p].pc # "idle") =>
              flow'[p].driver = flow[p].driver]_vars

\* An auto run on a source with a checkpoint is in its incremental driver.
C7_Witness ==
    \E p \in Proc :
        /\ flow[p].name = "convoetl_flow" /\ flow[p].arg_mode = "auto"
        /\ flow[p].start_id # None /\ flow[p].driver = "incremental"
        /\ flow[p].pc = "completed"

----------------------------------------------------------------------------
\* Properties of the checkpoint under any sequence of driver operations (Spec).

CheckpointOf(tbl, s) == get_last_message_id(tbl, s, "telegram")

\* A task of p raised in this step: it is retried or the flow has failed.
Raised(p) ==
    \/ flow'[p].tries = flow[p].tries + 1
    \/ flow[p].pc # "failed" /\ flow'[p].pc = "failed"

\* C2: the checkpoint of a source never decreases, whatever the drivers do
\* and whichever of their tasks fail or are retried.
C2_MonotonicCheckpoint ==
    [][\A s \in Sources : CheckpointOf(messages', s) >= CheckpointOf(messages, s)]_vars

\* A checkpoint has advanced twice: it stands at the second stored batch of a
\* driver that was retried on the way.
C2_Witness ==
    \E p \in Proc :
        /\ flow[p].pc = "load" /\ flow[p].tries > 0
        /\ flow[p].last_id > 0
        /\ CheckpointOf(messages, flow[p].source_id) = flow[p].last_id

\* C3: a checkpoint that is present is the id of a stored message of its
\* source, and no stored message of the source has an id above it.
C3_CheckpointWithinStorage ==
    \A s \in Sources :
        LET c == CheckpointOf(messages, s)
        IN  c # None =>
              /\ Row(c, "telegram", s) \in messages
              /\ \A r \in RowsOf(messages, s, "telegram") : r.message_id <= c

\* Two messages of a source are stored while a driver of that source stands
\* failed after a batch.
C3_Witness ==
    \E p \in Proc :
        /\ flow[p].pc = "failed" /\ flow[p].error = "load"
        /\ Cardinality(RowsOf(messages, flow[p].source_id, "telegram")) >= 2

\* C4: the checkpoint of a source changes only in a step in which a load task
\* of that source succeeds, and then it is the highest id of the batch, which
\* is stored; a step in which a task raises leaves the table, and so every
\* checkpoint, unchanged; and when a driver has failed in its load task, every
\* message of its batch that is not stored is returned again by an extract
\* from the checkpoint with the same limit.
C4_CheckpointLast ==
    [][/\ \A s \in Sources :
            CheckpointOf(messages', s) # CheckpointOf(messages, s) =>
               \E p \in Proc :
                  /\ flow[p].pc = "load" /\ flow[p].source_id = s
                  /\ flow'[p].pc # "failed" /\ ~Raised(p)
                  /\ flow[p].messages_df # {}
                  /\ flow[p].messages_df \subseteq messages'
                  /\ CheckpointOf(messages', s) = Max(MessageIds(flow[p].messages_df))
       /\ \A p \in Proc : Raised(p) => messages' = messages
       /\ \A p \in Proc :
            (flow'[p].pc = "failed" /\ flow'[p].error = "load") =>
               (flow'[p].messages_df \ messages') \subseteq
                  {Row(m, "telegram", flow'[p].source_id) :
                      m \in get_messages(upstream'[flow'[p].source_id],
                               IF CheckpointOf(messages', flow'[p].source_id) = None
                               THEN 0 ELSE CheckpointOf(messages', flow'[p].source_id),
                               flow'[p].limit)}
      ]_vars

\* A driver has failed in the load task of its second batch with nothing of
\* that batch stored: the checkpoint is still the end of its first batch.
C4_Witness ==
    \E p \in Proc :
        /\ flow[p].pc = "failed" /\ flow[p].error = "load"
        /\ flow[p].last_id > 0
        /\ flow[p].messages_df \cap messages = {}
        /\ CheckpointOf(messages, flow[p].source_id) = flow[p].last_id

----------------------------------------------------------------------------
\* Properties of run_multiple (SpecMulti).

\* C8: a run_multiple over a list in which one source's extractor always
\* fails returns completed with one result per source, a failure for that
\* source and a success for every other one.
C8_FanOutIsolation ==
    \A p \in Callers :
        (/\ flow[p].name = "multi_source_flow"
         /\ Terminal(p)
         /\ \E i \in DOMAIN flow[p].sources : flow[p].sources[i] = "abc") =>
            /\ flow[p].pc = "completed"
            /\ Len(flow[p].results) = Len(flow[p].sources)
            /\ \A i \in DOMAIN flow[p].results :
                  flow[p].results[i].status =
                     IF flow[p].sources[i] = "abc" THEN "failed" ELSE "completed"

----------------------------------------------------------------------------
\* Properties of the load task and the store (SpecLoad).

\* C9: a load of a batch that contains rows already in the table succeeds and
\* leaves every row of the batch stored.
C9_StoreIdempotent ==
    \A p \in Proc :
        (flow[p].name = "load_messages_task" /\ Terminal(p)) =>
            /\ flow[p].pc = "completed"
            /\ flow[p].messages_df \subseteq messages

\* A load whose batch has its highest id below the checkpoint found at the call.
RegressionLoad(p) ==
    /\ flow[p].name = "load_messages_task"
    /\ flow[p].messages_df # {}
    /\ flow[p].start_id # None
    /\ Max(MessageIds(flow[p].messages_df)) < flow[p].start_id

----------------------------------------------------------------------------
\* Properties of failing tasks (SpecFault).

InTask(p) == flow[p].pc \in {"get_last", "extract", "load"}

\* The retries of the @task decorator of the task the flow is at.
RetriesOf(p) ==
    IF flow[p].pc = "get_last" THEN GetLastRetries
    ELSE IF flow[p].pc = "extract" THEN ExtractRetries
    ELSE LoadRetries

\* C11: a task has been retried at most N times (3 for extract and load, 2
\* for the checkpoint read), so it runs at most N + 1 times; a task that
\* raises with retries left is run again; one that raises with none left
\* makes its flow fail with that task's error and without a result; and a
\* task that succeeds, retried or not, hands its result to the flow, which
\* goes on.
C11_BoundedRetry ==
    [][\A p \in Proc : InTask(p) =>
          /\ flow[p].tries <= RetriesOf(p)
          /\ flow'[p].tries <= flow[p].tries + 1
          /\ Raised(p) =>
                /\ flow[p].tries < RetriesOf(p) =>
                      /\ flow'[p].pc = flow[p].pc
                      /\ flow'[p].tries = flow[p].tries + 1
                /\ flow[p].tries = RetriesOf(p) =>
                      /\ flow'[p].pc = "failed"
                      /\ flow'[p].error = flow[p].pc
                      /\ flow'[p].result = NoResult
          /\ (~Raised(p) /\ flow'[p] # flow[p]) =>
                /\ flow'[p].pc \in {"extract", "load", "completed"}
                /\ flow'[p].pc # flow[p].pc
                /\ flow'[p].tries = 0
                /\ flow[p].pc = "get_last" =>
                      flow'[p].last_id = Checkpoint(p)
                /\ flow[p].pc = "extract" =>
                      flow'[p].messages_df =
                         extract_messages(flow[p].source_id, flow[p].last_id,
                                          flow[p].limit)
                /\ flow[p].pc = "load" =>
                      flow[p].messages_df \subseteq messages'
      ]_vars

\* The checkpoint read of a sync has raised three times: after its two
\* retries the flow has failed.
C11_Witness ==
    \E p \in Proc :
        /\ flow[p].pc = "failed" /\ flow[p].error = "get_last"
        /\ flow[p].tries = GetLastRetries

\* C12: an extract that fails because the platform has no extractor or the
\* source id is not one is attempted once: its flow is never in a retry and
\* fails with no retry made.
C12_FatalNotRetried ==
    \A p \in Proc :
        (flow[p].driver # "" /\ ExtractorRaises(flow[p].platform, flow[p].source_id)) =>
            flow[p].tries = 0

\* C13: when a backfill has failed, every message of the source up to the end
\* of its last stored batch is stored and counted, and the checkpoint is the
\* end of that batch (the checkpoint found at the call when the first batch
\* failed): nothing of the failed batch has moved it.
C13_BackfillFailureKeepsProgress ==
    \A p \in Proc :
        (flow[p].driver = "backfill" /\ flow[p].pc = "failed") =>
            LET done == {m \in upstream[flow[p].source_id] : m <= flow[p].last_id}
            IN  /\ {Row(m, flow[p].platform, flow[p].source_id) : m \in done}
                      \subseteq messages
                /\ flow[p].total = Cardinality(done)
                /\ Checkpoint(p) = IF flow[p].last_id > 0 THEN flow[p].last_id
                                   ELSE flow[p].start_id
                /\ flow[p].result = NoResult

\* A backfill has failed in the load of its third batch, two batches stored.
C13_Witness ==
    \E p \in Proc :
        /\ flow[p].driver = "backfill" /\ flow[p].pc = "failed"
        /\ flow[p].error = "load" /\ flow[p].batches = 3
        /\ flow[p].total = 2 * flow[p].limit
        /\ Checkpoint(p) = flow[p].last_id

----------------------------------------------------------------------------
\* Properties of a batch step and of the start of a backfill (SpecStatic).

\* C15: an extract that returns no message changes no row: the backfill
\* that made it completes with the total and the last_message_id it had, the
\* sync that made it goes through its load task, which stores nothing, and
\* completes with new_messages = 0 and last_message_id = the checkpoint it
\* read, which is still the checkpoint.
C15_EmptyNoSideEffects ==
    [][\A p \in Proc :
          /\ (/\ flow[p].pc = "extract"
              /\ flow'[p].batches = flow[p].batches + 1
              /\ flow'[p].messages_df = {}) =>
                /\ messages' = messages
                /\ flow[p].driver = "backfill" =>
                      /\ flow'[p].pc = "completed"
                      /\ flow'[p].result.status = "completed"
                      /\ flow'[p].result.messages = flow[p].total
                      /\ flow'[p].result.last_message_id = flow[p].last_id
                /\ flow[p].driver = "incremental" => flow'[p].pc = "load"
          /\ (/\ flow[p].pc = "load"
              /\ flow[p].messages_df = {}
              /\ flow'[p] # flow[p]) =>
                /\ messages' = messages
                /\ flow'[p].pc = "completed"
                /\ flow'[p].result.status = "completed"
                /\ flow'[p].result.messages = 0
                /\ flow'[p].result.last_message_id = flow[p].start_id
                /\ get_last_message_id(messages', flow[p].source_id, flow[p].platform)
                      = flow[p].start_id
      ]_vars

\* A sync of a source whose checkpoint is its highest id, with several
\* messages stored, has returned new_messages = 0.
C15_Witness ==
    \E p \in Proc :
        /\ flow[p].driver = "incremental" /\ flow[p].pc = "completed"
        /\ K(p) >= 2
        /\ flow[p].start_id = Max(upstream[flow[p].source_id])
        /\ flow[p].result.messages = 0
        /\ Checkpoint(p) = flow[p].start_id

\* C16: the first extract call of a backfill has after_id = the checkpoint
\* found at the call, and 0 only when there is none; no row a backfill
\* submits to the store is already stored.
C16_BackfillFromCheckpoint ==
    \A p \in Proc : flow[p].driver = "backfill" =>
        /\ (flow[p].pc = "extract" /\ flow[p].batches = 0) =>
              flow[p].last_id = IF flow[p].start_id = None THEN 0
                                ELSE flow[p].start_id
        /\ flow[p].pc = "load" => flow[p].messages_df \cap messages = {}

----------------------------------------------------------------------------
\* Properties of repeated syncs (SpecSync).

\* The messages of the source above the checkpoint before the first call.
Above(p) ==
    {m \in upstream[flow[p].source_id] :
        m > (IF flow[p].origin = None THEN 0 ELSE flow[p].origin)}

StoredAbove(p) ==
    MessageIds(RowsOf(messages, flow[p].source_id, flow[p].platform)) \cap Above(p)

\* C17: a sync makes one extract call, from the checkpoint it read (from the
\* beginning when there is none), of at most limit messages, none of them
\* stored already, and never fails on a static source; when call number i has returned, the i * limit lowest
\* messages above the first checkpoint are stored, so that all n of them are
\* stored exactly from call ceil(n / limit) on, and each call that found a
\* message has moved the checkpoint up to the highest id of its batch.
C17_SyncSingleStep ==
    \A p \in Proc :
      (/\ flow[p].name = "incremental_flow" /\ flow[p].iteration >= 1
       /\ flow[p].source_id \in NumericSources) =>
        LET L == flow[p].limit
            i == flow[p].iteration
            n == Cardinality(Above(p))
        IN  /\ flow[p].pc # "failed"
            /\ flow[p].batches <= 1
            /\ Cardinality(flow[p].messages_df) <= L
            /\ flow[p].pc \in {"extract", "load"} =>
                  /\ flow[p].last_id = flow[p].start_id
                  /\ flow[p].start_id = Checkpoint(p)
            /\ InTask(p) => StoredAbove(p) = Prefix(Above(p), (i - 1) * L)
            /\ flow[p].pc = "load" => flow[p].messages_df \cap messages = {}
            /\ flow[p].pc = "completed" =>
                  /\ flow[p].batches = 1
                  /\ flow[p].result.messages = Cardinality(flow[p].messages_df)
                  /\ StoredAbove(p) = Prefix(Above(p), i * L)
                  /\ (StoredAbove(p) = Above(p)) <=> (i * L >= n)
                  /\ flow[p].messages_df # {} =>
                        /\ Checkpoint(p) = Max(MessageIds(flow[p].messages_df))
                        /\ flow[p].start_id # None => Checkpoint(p) > flow[p].start_id

\* The third sync with limit 2 of a source with 5 messages above the
\* checkpoint has returned, and all 5 are stored.
C17_Witness ==
    \E p \in Proc :
        /\ flow[p].name = "incremental_flow" /\ flow[p].pc = "completed"
        /\ flow[p].limit = 2 /\ flow[p].iteration = 3
        /\ Cardinality(Above(p)) = 5
        /\ StoredAbove(p) = Above(p)

----------------------------------------------------------------------------
\* Properties of the polling loop (SpecPoll, SpecPollLive).

Polling(p) == flow[p].name = "polling_flow"

\* A poll with max_iterations = M >= 1.
BoundedPoll(p) == Polling(p) /\ flow[p].max_iterations >= 1

\* C18: a poll with max_iterations = M >= 1 never is in an iteration beyond
\* M, starts exactly one incremental sync per iteration, has completed only
\* with iteration = M, which it reports as iterations, and, unless it is
\* cancelled, does complete, whichever of its syncs succeed or fail.
C18_PollingIterations ==
    /\ [](\A p \in Callers : BoundedPoll(p) =>
             /\ flow[p].iteration <= flow[p].max_iterations
             /\ flow[p].pc = "completed" =>
                   /\ flow[p].iteration = flow[p].max_iterations
                   /\ flow[p].result.iterations = flow[p].max_iterations
                   /\ flow[p].result.status = "completed")
    /\ [][\A p \in Callers : (Polling(p) \/ flow'[p].name = "polling_flow") =>
             ((flow[PollWorker].pc = "idle" /\ flow'[PollWorker].pc # "idle")
                 <=> (flow'[p].iteration = flow[p].iteration + 1))]_vars
    /\ \A p \in Callers :
          BoundedPoll(p) ~> (flow[p].pc = "completed" \/ flow[p].error = "cancelled")

\* A poll with max_iterations = 3 has completed after syncs that stored
\* messages and a sync that failed.
C18_Witness ==
    \E p \in Callers :
        /\ Polling(p) /\ flow[p].pc = "completed"
        /\ flow[p].max_iterations = 3 /\ flow[p].result.iterations = 3
        /\ flow[p].logged >= 1 /\ flow[p].total >= 1

\* C19: when the sync of an iteration has raised, the loop logs it and goes
\* to its stop test: total_messages is as before, the poll sleeps (or has
\* completed, when this was the last iteration) and the checkpoint and the
\* table are what they were when the iteration started; the sleep is followed
\* by the next iteration; and no error of a sync ever makes the poll fail.
C19_PollingResilience ==
    /\ [](\A p \in Callers :
             (Polling(p) /\ flow[p].pc = "failed") => flow[p].error = "cancelled")
    /\ [][\A p \in Callers : Polling(p) =>
             /\ (/\ flow[p].pc = "sync"
                 /\ flow[PollWorker].pc = "failed"
                 /\ flow'[p] # flow[p]) =>
                   /\ flow'[p].total = flow[p].total
                   /\ flow'[p].logged = flow[p].logged + 1
                   /\ flow'[p].iteration = flow[p].iteration
                   /\ flow'[p].pc =
                         IF flow[p].max_iterations >= 1
                            /\ flow[p].iteration >= flow[p].max_iterations
                         THEN "completed" ELSE "sleep"
                   /\ messages' = messages
                   /\ Checkpoint(PollWorker) = flow[PollWorker].start_id
             /\ (flow[p].pc = "sleep" /\ flow'[p].pc = "sync") =>
                   /\ flow'[p].iteration = flow[p].iteration + 1
                   /\ flow'[PollWorker].pc = "get_last"
      ]_vars

\* A poll is in the load task of its second iteration after a first
\* iteration whose sync raised.
C19_Witness ==
    \E p \in Callers :
        /\ Polling(p) /\ flow[p].pc = "sync"
        /\ flow[p].iteration = 2 /\ flow[p].logged = 1
        /\ flow[PollWorker].pc = "load"

\* C20: a cancellation that comes while the poll is in its sleep ends the
\* flow in that step: no further iteration and no sync is started, then or
\* later, and the table, and so the checkpoint, stays as the last iteration
\* left it.
C20_PollingCancellation ==
    [][\A p \in Callers : Polling(p) =>
          /\ (flow[p].pc = "sleep" /\ flow'[p].error = "cancelled") =>
                /\ flow'[p].pc = "failed"
                /\ flow'[p].iteration = flow[p].iteration
                /\ flow'[p].total = flow[p].total
                /\ flow'[PollWorker].pc = "idle"
                /\ messages' = messages
          /\ flow[p].error = "cancelled" =>
                /\ flow'[p].pc \in {"failed", "idle"}
                /\ flow'[PollWorker].pc = "idle"
                /\ messages' = messages
      ]_vars

\* A poll has been cancelled in the sleep after its second iteration, with
\* messages stored.
C20_Witness ==
    \E p \in Callers :
        /\ Polling(p) /\ flow[p].pc = "failed" /\ flow[p].error = "cancelled"
        /\ flow[p].iteration = 2 /\ flow[p].total >= 1
        /\ messages # {}

\* The rows of the poll's source stored since the poll was called.
StoredSincePoll(p) ==
    {r \in RowsOf(messages, flow[p].source_id, flow[p].platform) :
        flow[p].start_id = None \/ r.message_id > flow[p].start_id}

\* The statistics polling_flow has returned are those of its run.
PollStatistics(p) ==
    LET r == flow[p].result
    IN  /\ r.status = "completed"
        /\ r.iterations = flow[p].iteration
        /\ r.iterations >= 1
        /\ flow[p].logged <= r.iterations
        /\ r.total_messages = Cardinality(StoredSincePoll(p))
        /\ r.total_messages <= (r.iterations - flow[p].logged) * DefaultLimit
        /\ r.average_messages_per_poll[2] # 0
        /\ r.average_messages_per_poll[1] * r.iterations
              = r.total_messages * r.average_messages_per_poll[2]

\* C21 as stated: every exit of the polling loop, by the stop test or by a
\* cancellation, ends the poll with its statistics: iterations is the number
\* of iterations run, total_messages the sum of new_messages of the
\* iterations that succeeded, the average their quotient.
C21_StatisticsOnEveryExit ==
    \A p \in Callers : (Polling(p) /\ Terminal(p)) => PollStatistics(p)

\* C21: a poll that ends by its stop test returns these statistics, and a
\* poll ends with statistics only in this way; iterations that failed add
\* nothing to total_messages, which is the number of rows stored since the
\* call.  A poll that is cancelled ends with the exception and no result.
C21_StatisticsOnCompletion ==
    \A p \in Callers : Polling(p) =>
        /\ flow[p].pc = "completed" =>
              /\ PollStatistics(p)
              /\ flow[p].iteration = flow[p].max_iterations
        /\ flow[p].pc = "failed" =>
              /\ flow[p].error = "cancelled"
              /\ flow[p].result = NoResult
        /\ flow[p].pc \in {"sync", "sleep"} => flow[p].result = NoResult

\* A poll with max_iterations = 3 has returned the statistics of two
\* iterations that stored three messages in all and of one that failed.
C21_Witness ==
    \E p \in Callers :
        /\ Polling(p) /\ flow[p].pc = "completed"
        /\ flow[p].result.iterations = 3 /\ flow[p].logged = 1
        /\ flow[p].result.total_messages = 3
        /\ flow[p].result.average_messages_per_poll = <<3, 3>>

\* C30: a poll called with max_iterations = 0 ends by its stop test: it
\* never goes to sleep to run a further iteration, and runs no second
\* iteration.
C30_ZeroIterationBound ==
    \A p \in Callers : (Polling(p) /\ flow[p].max_iterations = 0) =>
        /\ flow[p].pc # "sleep"
        /\ flow[p].iteration <= 1

\* C28: get_last_message_id is None exactly when no row of the source is
\* stored, whatever non-negative ids the rows have, and a source with a row
\* is one with a checkpoint for the auto mode: it is synced, not backfilled.
C28_CheckpointPresence ==
    \A s \in NumericSources :
        LET last_id == get_last_message_id(messages, s, "telegram")
            rows == RowsOf(messages, s, "telegram")
        IN  /\ (last_id = None) <=> (rows = {})
            /\ rows # {} => /\ last_id = Max(MessageIds(rows))
                            /\ SelectMode("auto", last_id) = "incremental"

\* The ids of the rows stored of the source of p.
StoredIds(p) == MessageIds(RowsOf(messages, flow[p].source_id, flow[p].platform))

\* C26: a backfill of a static source that starts with no row of the source
\* stores the messages in the order of their ids, without a gap: while it
\* loops the table holds exactly the messages up to its cursor, a batch it
\* is about to store holds the next messages and none that is stored, and
\* when it has completed the table holds exactly the messages of the source,
\* as many rows as the total it counted.
C26_BackfillCompleteness ==
    \A p \in Proc : FreshBackfill(p) =>
        LET U == upstream[flow[p].source_id]
            df == MessageIds(flow[p].messages_df)
        IN  /\ StoredIds(p) \subseteq U
            /\ flow[p].pc \in {"extract", "load"} =>
                  /\ StoredIds(p) = {m \in U : m <= flow[p].last_id}
                  /\ flow[p].total = Cardinality(StoredIds(p))
            /\ flow[p].pc = "load" =>
                  /\ flow[p].messages_df \cap messages = {}
                  /\ df \subseteq U
                  /\ \A m \in U \ (StoredIds(p) \cup df) : \A x \in df : x < m
            /\ flow[p].pc = "completed" =>
                  /\ StoredIds(p) = U
                  /\ Cardinality(RowsOf(messages, flow[p].source_id, flow[p].platform))
                        = K(p)
                  /\ flow[p].result.messages = K(p)

\* A backfill in batches of 2 has completed on the source {1, 3, 4, 5}, whose
\* ids have a gap, and the table holds these four messages.
C26_Witness ==
    \E p \in Proc :
        /\ FreshBackfill(p) /\ flow[p].pc = "completed"
        /\ upstream[flow[p].source_id] = {1, 3, 4, 5} /\ flow[p].limit = 2
        /\ StoredIds(p) = {1, 3, 4, 5}

\* C29: in a backfill of a static source that starts with no row of the
\* source, the after_id of an extract call is above the after_id of the call
\* before, no step lowers the cursor, and the backfill does complete; every
\* backfill reaches a terminal state.
C29_BackfillTermination ==
    /\ [][\A p \in Proc :
             (FreshBackfill(p) /\ flow'[p].driver = "backfill"
                  /\ flow[p].pc \in {"extract", "load"}) =>
                /\ flow'[p].last_id >= flow[p].last_id
                /\ (flow[p].pc = "load" /\ flow'[p].pc = "extract") =>
                      flow'[p].last_id > flow[p].last_id
                /\ flow'[p].batches >= flow[p].batches
                /\ flow'[p].pc # "failed"]_vars
    /\ \A p \in Callers : FreshBackfill(p) ~> (flow[p].pc = "completed")
    /\ \A p \in Callers :
          (flow[p].driver = "backfill") ~> (flow[p].pc \in {"completed", "failed"})

\* A backfill in batches of 1 is at its fourth extract call, with the cursor
\* at the third message of the source.
C29_Witness ==
    \E p \in Proc :
        /\ FreshBackfill(p) /\ flow[p].pc = "extract"
        /\ flow[p].limit = 1 /\ flow[p].batches = 3
        /\ flow[p].last_id = 3 /\ K(p) = 5

\* The sub-flow runs of run_multiple that have started and not ended.
InProgress == {w \in WorkerSet : flow[w].pc \notin {"idle", "completed", "failed"}}

\* C22: at every moment of a run_multiple, over three sources or over more,
\* at most MaxWorkers of its drivers are in progress.
C22_BoundedFanOut ==
    Cardinality(InProgress) <= MaxWorkers

\* The rows stored since the sub-flow run in slot w started.
StoredSince(w) ==
    {r \in RowsOf(messages, flow[w].source_id, flow[w].platform) :
        flow[w].start_id = None \/ r.message_id > flow[w].start_id}

RECURSIVE SumOver(_, _)
SumOver(S, count) ==
    IF S = {} THEN 0
    ELSE LET x == CHOOSE y \in S : TRUE
         IN  count[x] + SumOver(S \ {x}, count)

\* C23: when run_multiple has returned for a list of n sources,
\* individual_results is the list of the results of the n drivers in the
\* order of the sources, each a completed one, sources_processed is n, and
\* total_messages is the sum of the counts the drivers returned, which is the
\* number of rows they stored.
C23_FanOutAggregation ==
    \A p \in Callers :
        (flow[p].name = "multi_source_flow" /\ flow[p].pc = "completed") =>
            LET r == flow[p].result
                n == Len(flow[p].sources)
                count == [i \in 1..n |-> flow[Workers[i]].result.messages]
                stored == [i \in 1..n |-> Cardinality(StoredSince(Workers[i]))]
            IN  /\ r.status = "completed"
                /\ r.sources_processed = n
                /\ Len(r.individual_results) = n
                /\ \A i \in 1..n :
                      /\ flow[Workers[i]].source_id = flow[p].sources[i]
                      /\ flow[Workers[i]].pc = "completed"
                      /\ r.individual_results[i] = flow[Workers[i]].result
                /\ r.total_messages = SumOver(1..n, count)
                /\ r.total_messages = SumOver(1..n, stored)

\* A run_multiple over two sources in incremental mode has returned: one
\* driver stored two messages, the other none.
C23_Witness ==
    \E p \in Callers :
        /\ flow[p].name = "multi_source_flow" /\ flow[p].pc = "completed"
        /\ flow[p].mode = "incremental"
        /\ flow[p].result.sources_processed = 2
        /\ flow[p].result.individual_results[1].messages = 2
        /\ flow[p].result.individual_results[2].messages = 0
        /\ flow[p].result.total_messages = 2

----------------------------------------------------------------------------
\* Properties of two drivers that run at the same time (SpecPair, SpecRace).

\* What a driver that runs alone on a static source leaves, from the table at
\* its call: a sync adds the page above the checkpoint; a backfill stores the
\* whole source when the table has no row of it, and otherwise fails on the
\* primary key of its first batch and stores nothing.
StartIds(p) ==
    {m \in upstream[flow[p].source_id] :
        flow[p].start_id # None /\ m <= flow[p].start_id}

AloneIds(p) ==
    IF flow[p].source_id \notin NumericSources THEN {}
    ELSE IF flow[p].driver = "incremental"
         THEN StartIds(p) \cup
              get_messages(upstream[flow[p].source_id],
                           IF flow[p].start_id = None THEN 0 ELSE flow[p].start_id,
                           flow[p].limit)
         ELSE IF flow[p].start_id = None THEN upstream[flow[p].source_id]
              ELSE StartIds(p)

AlonePc(p) ==
    IF flow[p].source_id \notin NumericSources THEN "failed"
    ELSE IF flow[p].driver = "backfill" /\ flow[p].start_id # None THEN "failed"
         ELSE "completed"

\* C24: of two drivers on different sources, each ends as it would alone,
\* with the rows and the checkpoint of its source it would leave alone,
\* however their steps interleave; and a step of one driver (a task that
\* runs, a store, a rollback, a failure) changes neither the rows of the
\* other's source nor the other driver.
C24_CrossSourceIndependence ==
    /\ [](\A p \in Callers : Terminal(p) =>
             /\ flow[p].pc = AlonePc(p)
             /\ StoredIds(p) = AloneIds(p)
             /\ Checkpoint(p) = IF AloneIds(p) = {} THEN None ELSE Max(AloneIds(p)))
    /\ [][\A p, q \in Callers : (p # q /\ flow'[p] # flow[p]) =>
             /\ flow'[q] = flow[q]
             /\ \A s \in PairSources[q] :
                   RowsOf(messages', s, "telegram") = RowsOf(messages, s, "telegram")
      ]_vars

\* One driver is storing its second batch while the store of the other, on
\* another source, has raised on the primary key and rolled back.
C24_Witness ==
    /\ flow["c1"].pc = "load" /\ flow["c1"].total >= 1
    /\ flow["c2"].pc = "load" /\ flow["c2"].tries >= 1
    /\ flow["c1"].source_id # flow["c2"].source_id

\* What a driver has returned as its count: nothing when it raised.
Reported(p) == IF flow[p].pc = "completed" THEN flow[p].result.messages ELSE 0

\* The rows of the source of the two drivers that were not in the table when
\* the first of them was called.
AddedByBoth ==
    LET starts == {flow[p].start_id : p \in Callers}
        s == flow["c1"].source_id
    IN  {r \in RowsOf(messages, s, "telegram") :
            None \in starts \/ r.message_id > Min(starts)}

\* C27: when two drivers run on the same source, a store adds only rows
\* whose keys are not in the table and removes none, the checkpoint never
\* decreases, and when both have ended the counts they returned add up to
\* the number of rows added to the table.
C27_ConcurrentDrivers ==
    /\ [][/\ messages \subseteq messages'
          /\ \A p \in Callers : flow[p].pc = "load" /\ messages' # messages
                /\ flow'[p] # flow[p] =>
                   /\ flow[p].messages_df \cap messages = {}
                   /\ messages' = messages \cup flow[p].messages_df
          /\ \A s \in RaceSources :
                LET old == CheckpointOf(messages, s)
                    new == CheckpointOf(messages', s)
                IN  old # None => (new # None /\ new >= old)]_vars
    /\ []((\A p \in Callers : Terminal(p)) =>
            Reported("c1") + Reported("c2") = Cardinality(AddedByBoth))

----------------------------------------------------------------------------
\* Properties of a sync on a live group (SpecCache).

\* The messages the source had above the checkpoint when p was called.
SeenAbove(p) ==
    {m \in flow[p].seen : flow[p].start_id = None \/ m > flow[p].start_id}

\* C25: a sync that was called when the source had messages above the
\* checkpoint has stored at least one of them when it returns.
C25_SyncSeesUpstream ==
    \A p \in Callers :
        (flow[p].driver = "incremental" /\ flow[p].pc = "completed"
            /\ SeenAbove(p) # {}) =>
                /\ flow[p].result.messages >= 1
                /\ StoredIds(p) \cap SeenAbove(p) # {}

====
